---- MODULE Spec2Model ----
(***************************************************************************)
(* pkasolver: conjugate generation (chem.py, query.py) and the iterative   *)
(* micro-speciation search of query.mol_query.                             *)
(*                                                                         *)
(* A molecule is a sequence of atoms.  Atom indices are 0-based as in the  *)
(* source (GetAtomWithIdx(mol, i) is the (i+1)-th element).  pKa and pH    *)
(* values are integers in units of 0.1 (0.5 is 5, 7.4 is 74, 13.5 is 135). *)
(***************************************************************************)
EXTENDS Integers, Sequences, FiniteSets, TLC

VARIABLES pc, start_mol, mols, pkas, atoms, matches, acid_pairs, base_pairs,
          scores, iters, in_order, tied, result, cc_in, cc_out, cc_sorted,
          mol_lst, ion_idx, nodes_in, nodes_out, pair_in, pair_out,
          edges_in, edges_out, feat_in, feat_out, requests, query_model

vars == <<pc, start_mol, mols, pkas, atoms, matches, acid_pairs, base_pairs,
          scores, iters, in_order, tied, result, cc_in, cc_out, cc_sorted,
          mol_lst, ion_idx, nodes_in, nodes_out, pair_in, pair_out,
          edges_in, edges_out, feat_in, feat_out, requests,
          query_model>>

\* the variables of a query, of a data-set row and of a site enumeration
query_vars == <<start_mol, mols, pkas, atoms, matches, acid_pairs, base_pairs,
                scores, iters, in_order, tied, result, requests>>

cc_vars == <<cc_in, cc_out, cc_sorted>>

idx_vars == <<mol_lst, ion_idx>>

\* the arguments and the return values of make_nodes, of the pair builder
\* of make_edges_and_attr and of make_features_dicts
enc_vars == <<nodes_in, nodes_out, pair_in, pair_out, edges_in, edges_out,
              feat_in, feat_out>>

\* ------------------------------------------------------------------ bounds
\* largest number of (heavy) atoms of an input molecule
MaxAtoms == 2
\* largest number of protonation variants handed to get_ionization_indices
MaxVariants == 2
\* largest number of atoms of a molecule handed to mol_to_paired_mol_data
MaxPairAtoms == 3
\* largest number of names in the feat_list of make_features_dicts
MaxRequested == 3

\* ------------------------------------------------------- program constants
\* "if pka < 0.5" in acid_sequence
ACID_MIN_PKA == 5
\* "if pka > 13.5" in base_sequence
BASE_MAX_PKA == 135
\* create_conjugate(mol, id, pka, pH=7.4)
DEFAULT_PH == 74
\* element == 7 in get_possible_reactions
NITROGEN == 7

\* atomic numbers of the modelled elements: boron, nitrogen, oxygen
Elements == {5, 7, 8}
\* formal charges an atom carries (node_feature_values["formal_charge"])
Charges == {-1, 0, 1}
\* bond orders between neighbouring atoms
BondOrders == {1, 2, 3}
\* values the regressor returns for acid pairs (0.4, 0.5, 13.5) and for base
\* pairs (0.5, 13.5, 13.6): both sides of either threshold, in either order
AcidScores == {4, 5, 135}
BaseScores == {5, 135, 136}
\* reference pKa values handed to create_conjugate (5.0, 7.4, 9.0)
PkaInputs == {50, 74, 90}

\* ------------------------------------------------ RDKit atom (library) model
\* boron is an "early" atom: extra valences mean negative charge
IsEarlyAtom(el) == el = 5

MaxValence(el) == IF el = 8 THEN 2 ELSE 3

\* charge correction of the allowed valence
ValenceShift(atom) ==
    IF IsEarlyAtom(atom.el) THEN 0 - atom.charge ELSE atom.charge

ExplicitValence(atom) == atom.bonds + atom.ExHs

GetTotalNumHs(atom) == atom.ExHs + atom.ImHs

GetAtomWithIdx(mol, idx) == mol[idx + 1]

\* the strict valence check, then the implicit hydrogens are recomputed;
\* ok = FALSE is the AtomValenceException
CalcValence(atom) ==
    IF ExplicitValence(atom) > MaxValence(atom.el) + ValenceShift(atom)
    THEN [ok |-> FALSE, atom |-> atom]
    ELSE [ok |-> TRUE,
          atom |-> [atom EXCEPT !.ImHs =
                      IF atom.noImplicit THEN 0
                      ELSE MaxValence(atom.el) + ValenceShift(atom)
                           - ExplicitValence(atom)]]

\* atom.UpdatePropertyCache(), on the atom as it is when the call is made
UpdatePropertyCache(atom) ==
    CHOOSE upd \in { CalcValence(a) : a \in {atom} } : TRUE

\* the atom Chem.MolFromSmiles(Chem.MolToSmiles(mol)) yields: a neutral atom
\* of the organic subset is written without brackets (implicit hydrogens), a
\* charged atom in brackets (explicit hydrogens, no implicit ones)
SmilesAtom(el, c, b) ==
    LET shift == IF IsEarlyAtom(el) THEN 0 - c ELSE c
        h == MaxValence(el) + shift - b
    IN  IF c = 0
        THEN [el |-> el, charge |-> c, bonds |-> b, ExHs |-> 0, ImHs |-> h,
              noImplicit |-> FALSE]
        ELSE [el |-> el, charge |-> c, bonds |-> b, ExHs |-> h, ImHs |-> 0,
              noImplicit |-> TRUE]

\* sum of the bond orders of atom i of a chain with the given bond orders
ChainBonds(n, orders, i) ==
    (IF i > 1 THEN orders[i - 1] ELSE 0) + (IF i < n THEN orders[i] ELSE 0)

\* the molecules handed in: chains of 1..MaxAtoms atoms with valid valences
Molecules ==
    UNION { { [i \in 1..n |-> SmilesAtom(els[i], cs[i], ChainBonds(n, orders, i))] :
                <<els, cs, orders>> \in
                  { t \in [1..n -> Elements] \X [1..n -> Charges]
                            \X [1..(n-1) -> BondOrders] :
                      \A i \in 1..n :
                        SmilesAtom(t[1][i], t[2][i], ChainBonds(n, t[3], i)).ImHs >= 0
                        /\ SmilesAtom(t[1][i], t[2][i], ChainBonds(n, t[3], i)).ExHs >= 0 } }
            : n \in 1..MaxAtoms }

\* ascending lists of atom indices 0..n-1 (what get_ionization_indices returns)
RECURSIVE SortedSeq(_)
SortedSeq(S) ==
    IF S = {} THEN <<>>
    ELSE LET m == CHOOSE x \in S : \A y \in S : x <= y
         IN  <<m>> \o SortedSeq(S \ {m})

SiteLists(n) == { SortedSeq(S) : S \in SUBSET (0..(n-1)) }

SetAtom(mol, idx, atom) == [mol EXCEPT ![idx + 1] = atom]

\* Chem.RWMol(mol) and deepcopy(mol): a new molecule object with the atoms of
\* mol; object says which object the edits that follow are made on
RWMol_SameObject(mol) == [atoms |-> mol, object |-> "argument"]

RWMol(mol) == [atoms |-> mol, object |-> "new"]

deepcopy(mol) == [atoms |-> mol, object |-> "new"]

\* the argument mol after atom idx of the object new was set to atom
ArgumentAfter(mol, new, idx, atom) ==
    IF new.object = "argument" THEN SetAtom(mol, idx, atom) ELSE mol

\* ---------------------------------------------------------------- QueryModel
\* model_path of query.py, the pickled model shipped with the package
model_path == "reg_everything_best_model.pkl"

\* the paths handed to QueryModel and set_model_path
ModelPaths == {model_path, "model_a.pkl", "model_b.pkl"}

\* pickle.load(f) of the file opened at path: the model stored in that file
PickleLoad(path) == [file |-> path]

\* model_init: "with open(model_path, "rb") as f: self.model = pickle.load(f)"
model_init(self) == [self EXCEPT !.model = PickleLoad(model_path)]

\* QueryModel.__init__(self, path)
QueryModel(path) == model_init([path |-> path, model |-> [file |-> ""]])

\* QueryModel.set_path(self, new_path)
set_path(self, new_path) == model_init([self EXCEPT !.path = new_path])

\* set_model_path(new_path, query_model=query_model)
set_model_path(new_path, qm) == set_path(qm, new_path)

\* ---------------------------------------------------- get_possible_reactions
\* AcidValid without "or charge < 0"
AcidValid_NitrogenOnly(atom) == atom.el = NITROGEN /\ atom.charge <= 0

\* "if (element == 7 and charge <= 0) or charge < 0"
AcidValid(atom) ==
    (atom.el = NITROGEN /\ atom.charge <= 0) \/ atom.charge < 0

\* AcidEdit without SetFormalCharge(charge + 1)
AcidEdit_NoCharge(atom) ==
    IF GetTotalNumHs(atom) = 0 \/ atom.ExHs > 0
    THEN [atom EXCEPT !.ExHs = atom.ExHs + 1]
    ELSE atom

\* AcidEdit with SetNumExplicitHs(Ex_Hs + 1) whatever the hydrogen counts
AcidEdit_AlwaysExplicit(atom) ==
    [atom EXCEPT !.charge = atom.charge + 1, !.ExHs = atom.ExHs + 1]

\* SetFormalCharge(charge + 1); if Tot_Hs == 0 or Ex_Hs > 0: SetNumExplicitHs(Ex_Hs + 1)
AcidEdit(atom) ==
    LET a1 == [atom EXCEPT !.charge = atom.charge + 1]
    IN  IF GetTotalNumHs(atom) = 0 \/ atom.ExHs > 0
        THEN [a1 EXCEPT !.ExHs = atom.ExHs + 1]
        ELSE a1

\* BaseValid without "and not (element == 7 and charge == 0 and Tot_Hs == 1)"
BaseValid_NoNitrogenTest(atom) ==
    /\ GetTotalNumHs(atom) > 0
    /\ atom.charge >= 0

\* BaseValid without the test "charge >= 0"
BaseValid_NoChargeTest(atom) ==
    /\ GetTotalNumHs(atom) > 0
    /\ ~(atom.el = NITROGEN /\ atom.charge = 0 /\ GetTotalNumHs(atom) = 1)

\* "Tot_Hs > 0 and charge >= 0 and not (element == 7 and charge == 0 and Tot_Hs == 1)"
BaseValid(atom) ==
    /\ GetTotalNumHs(atom) > 0
    /\ atom.charge >= 0
    /\ ~(atom.el = NITROGEN /\ atom.charge = 0 /\ GetTotalNumHs(atom) = 1)

\* BaseEdit without SetFormalCharge(charge - 1)
BaseEdit_NoCharge(atom) ==
    IF atom.ExHs > 0 THEN [atom EXCEPT !.ExHs = atom.ExHs - 1] ELSE atom

\* SetFormalCharge(charge - 1); if Ex_Hs > 0: SetNumExplicitHs(Ex_Hs - 1)
BaseEdit(atom) ==
    LET a1 == [atom EXCEPT !.charge = atom.charge - 1]
    IN  IF atom.ExHs > 0
        THEN [a1 EXCEPT !.ExHs = atom.ExHs - 1]
        ELSE a1

\* TryAcid without the try/except: the exception leaves the function
TryAcid_NoExcept(mol, match) ==
    LET atom == GetAtomWithIdx(mol, match)
        upd == UpdatePropertyCache(AcidEdit(atom))
    IN  IF ~AcidValid(atom)
        THEN [pairs |-> <<>>, raised |-> FALSE]
        ELSE IF upd.ok
        THEN [pairs |-> << [prot |-> SetAtom(mol, match, upd.atom),
                            deprot |-> mol, idx |-> match] >>,
              raised |-> FALSE]
        ELSE [pairs |-> <<>>, raised |-> TRUE]

\* the acid branch: acid_pairs.append((new_mol, mol, match)) inside
\* "try: ... except: pass", so an exception drops the pair and goes no further
TryAcid(mol, match) ==
    LET atom == GetAtomWithIdx(mol, match)
        upd == UpdatePropertyCache(AcidEdit(atom))
    IN  IF ~AcidValid(atom)
        THEN [pairs |-> <<>>, raised |-> FALSE]
        ELSE IF upd.ok
        THEN [pairs |-> << [prot |-> SetAtom(mol, match, upd.atom),
                            deprot |-> mol, idx |-> match] >>,
              raised |-> FALSE]
        ELSE [pairs |-> <<>>, raised |-> FALSE]

\* the base branch has no try/except: an exception leaves the function
BaseRaises(mol, match) ==
    LET atom == GetAtomWithIdx(mol, match)
    IN  BaseValid(atom) /\ ~UpdatePropertyCache(BaseEdit(atom)).ok

\* BasePairs with the members in the order (new_mol, mol, match)
BasePairs_Swapped(mol, match) ==
    LET atom == GetAtomWithIdx(mol, match)
        upd == UpdatePropertyCache(BaseEdit(atom))
    IN  IF BaseValid(atom)
        THEN << [prot |-> SetAtom(mol, match, upd.atom), deprot |-> mol,
                 idx |-> match] >>
        ELSE <<>>

\* base_pairs.append((mol, new_mol, match))
BasePairs(mol, match) ==
    LET atom == GetAtomWithIdx(mol, match)
        upd == UpdatePropertyCache(BaseEdit(atom))
    IN  IF BaseValid(atom)
        THEN << [prot |-> mol, deprot |-> SetAtom(mol, match, upd.atom),
                 idx |-> match] >>
        ELSE <<>>

\* the argument mol after the acid branch at site match: the edits are made
\* on new_mol = deepcopy(mol), before UpdatePropertyCache can raise
AfterAcid(mol, match) ==
    LET new_mol == deepcopy(mol)
        atom == GetAtomWithIdx(new_mol.atoms, match)
    IN  IF AcidValid(atom)
        THEN ArgumentAfter(mol, new_mol, match,
                           UpdatePropertyCache(AcidEdit(atom)).atom)
        ELSE mol

\* the argument mol after the base branch at site match
AfterBase(mol, match) ==
    LET new_mol == deepcopy(mol)
        atom == GetAtomWithIdx(new_mol.atoms, match)
    IN  IF BaseValid(atom)
        THEN ArgumentAfter(mol, new_mol, match,
                           UpdatePropertyCache(BaseEdit(atom)).atom)
        ELSE mol

\* one pass of the body of "for match in matches": r is what the passes
\* before have built, r.mol the caller's molecule as they left it, acid what
\* the acid branch gives and m1 the caller's molecule after it
ReactionsAt(r, match) ==
    IF r.raised THEN r
    ELSE CHOOSE out \in
           { IF acid.raised \/ BaseRaises(m1, match)
             THEN [r EXCEPT !.raised = TRUE, !.mol = AfterBase(m1, match)]
             ELSE [acid_pairs |-> r.acid_pairs \o acid.pairs,
                   base_pairs |-> r.base_pairs \o BasePairs(m1, match),
                   raised |-> FALSE,
                   mol |-> AfterBase(m1, match)] :
               acid \in {TryAcid(r.mol, match)},
               m1 \in {AfterAcid(r.mol, match)} } : TRUE

\* the loop "for match in matches" over the first k sites; mol is the
\* caller's molecule as the call leaves it
RECURSIVE Reactions(_, _, _)
Reactions(mol, sites, k) ==
    IF k = 0
    THEN [acid_pairs |-> <<>>, base_pairs |-> <<>>, raised |-> FALSE, mol |-> mol]
    ELSE CHOOSE out \in { ReactionsAt(r, sites[k]) :
                            r \in {Reactions(mol, sites, k - 1)} } : TRUE

get_possible_reactions(mol, sites) == Reactions(mol, sites, Len(sites))

\* ------------------------------------------------ acid_sequence, base_sequence
RECURSIVE SeqMax(_)
SeqMax(s) ==
    IF Len(s) = 1 THEN s[1]
    ELSE LET m == SeqMax(Tail(s)) IN IF s[1] >= m THEN s[1] ELSE m

RECURSIVE SeqMin(_)
SeqMin(s) ==
    IF Len(s) = 1 THEN s[1]
    ELSE LET m == SeqMin(Tail(s)) IN IF s[1] <= m THEN s[1] ELSE m

\* the last position holding x
Index_Last(s, x) == CHOOSE i \in 1..Len(s) : s[i] = x /\ \A j \in (i+1)..Len(s) : s[j] # x

\* list.index(x): the first position holding x
Index(s, x) == CHOOSE i \in 1..Len(s) : s[i] = x /\ \A j \in 1..(i-1) : s[j] # x

\* "if pka <= 0.5: return"
AcidRejected_AtThreshold(pka) == pka <= ACID_MIN_PKA

\* "if pka < 0.5: return" in acid_sequence
AcidRejected(pka) == pka < ACID_MIN_PKA

\* "if pka >= 13.5: return"
BaseRejected_AtThreshold(pka) == pka >= BASE_MAX_PKA

\* "if pka > 13.5: return" in base_sequence
BaseRejected(pka) == pka > BASE_MAX_PKA

\* pka = max(acid_pkas); acid_pairs[acid_pkas.index(pka)]
AcidChoice(acid_pkas) == Index(acid_pkas, SeqMax(acid_pkas))

\* pka = min(base_pkas); base_pairs[base_pkas.index(pka)]
BaseChoice(base_pkas) == Index(base_pkas, SeqMin(base_pkas))

\* list.append(x) in place of list.insert(0, x)
Insert0_AtEnd(s, x) == Append(s, x)

\* list.insert(0, x)
Insert0(s, x) == <<x>> \o s

\* acid_sequence with atoms.insert(0, acid_pkas.index(pka)): the position of
\* the pair in acid_pairs for the pair's atom index
acid_sequence_PairIndex(a_pairs, ms, ps, as, acid_pkas) ==
    IF Len(a_pairs) > 0
    THEN LET k == AcidChoice(acid_pkas)
             pka == acid_pkas[k]
         IN  IF AcidRejected(pka)
             THEN [mols |-> ms, pkas |-> ps, atoms |-> as]
             ELSE [mols |-> Insert0(ms, a_pairs[k].prot),
                   pkas |-> Insert0(ps, pka),
                   atoms |-> Insert0(as, k - 1)]
    ELSE [mols |-> ms, pkas |-> ps, atoms |-> as]

\* acid_pkas is what match_pka returned for acid_pairs
acid_sequence(a_pairs, ms, ps, as, acid_pkas) ==
    IF Len(a_pairs) > 0
    THEN LET k == AcidChoice(acid_pkas)
             pka == acid_pkas[k]
         IN  IF AcidRejected(pka)
             THEN [mols |-> ms, pkas |-> ps, atoms |-> as]
             ELSE [mols |-> Insert0(ms, a_pairs[k].prot),
                   pkas |-> Insert0(ps, pka),
                   atoms |-> Insert0(as, a_pairs[k].idx)]
    ELSE [mols |-> ms, pkas |-> ps, atoms |-> as]

\* base_sequence with list.insert(0, x) for list.append(x)
base_sequence_Prepend(b_pairs, ms, ps, as, base_pkas) ==
    IF Len(b_pairs) > 0
    THEN LET k == BaseChoice(base_pkas)
             pka == base_pkas[k]
         IN  IF BaseRejected(pka)
             THEN [mols |-> ms, pkas |-> ps, atoms |-> as]
             ELSE [mols |-> Insert0(ms, b_pairs[k].deprot),
                   pkas |-> Insert0(ps, pka),
                   atoms |-> Insert0(as, b_pairs[k].idx)]
    ELSE [mols |-> ms, pkas |-> ps, atoms |-> as]

\* base_pkas is what match_pka returned for base_pairs
base_sequence(b_pairs, ms, ps, as, base_pkas) ==
    IF Len(b_pairs) > 0
    THEN LET k == BaseChoice(base_pkas)
             pka == base_pkas[k]
         IN  IF BaseRejected(pka)
             THEN [mols |-> ms, pkas |-> ps, atoms |-> as]
             ELSE [mols |-> Append(ms, b_pairs[k].deprot),
                   pkas |-> Append(ps, pka),
                   atoms |-> Append(as, b_pairs[k].idx)]
    ELSE [mols |-> ms, pkas |-> ps, atoms |-> as]

\* one call of match_pka for every pair
match_pka_calls_OneByOne(pairs) == [k \in 1..Len(pairs) |-> <<pairs[k]>>]

\* the calls of match_pka that acid_sequence / base_sequence make for the
\* pairs of a step: "if len(acid_pairs) > 0: match_pka(acid_pairs, ...)",
\* each call given as its pair_tuples
match_pka_calls(pairs) == IF Len(pairs) > 0 THEN <<pairs>> ELSE <<>>

\* the scores match_pka can return for n pairs (none is requested for n = 0)
ScoreLists(n, Scores) == [1..n -> Scores]

\* mol_tuples with the members of every tuple in the other order
MolTuples_Swapped(ms) == [i \in 1..(Len(ms) - 1) |-> <<ms[i + 1], ms[i]>>]

\* mol_tuples of mol_query
MolTuples(ms) == [i \in 1..(Len(ms) - 1) |-> <<ms[i], ms[i + 1]>>]

NoResult == [mol |-> <<>>, pka |-> <<>>, atom |-> <<>>]

\* ---------------------------------------------------------- create_conjugate
\* the first test without "or charge > 0"
Rule1Applies_NoChargeTest(pka, pH, Tot_Hs, charge) == pka > pH /\ Tot_Hs > 0

\* "if (pka > pH and Tot_Hs > 0) or charge > 0"
Rule1Applies(pka, pH, Tot_Hs, charge) == (pka > pH /\ Tot_Hs > 0) \/ charge > 0

\* "elif pka < pH and charge <= 0"
Rule2Applies(pka, pH, Tot_Hs, charge) == pka < pH /\ charge <= 0

\* outcome "returned": the new molecule; "AtomValenceException": raised by
\* UpdatePropertyCache; "SyntaxError": line 28 of chem.py ("Tot_Hs = 0") is
\* not an expression, so control cannot get past the third test.  arg is the
\* caller's molecule after the call
create_conjugate(mol, id, pka, pH) ==
    LET new == RWMol(mol)
        atom == GetAtomWithIdx(new.atoms, id)
        charge == atom.charge
        Ex_Hs == atom.ExHs
        Tot_Hs == GetTotalNumHs(atom)
        finish(rule, edited) ==
            LET upd == UpdatePropertyCache(edited)
            IN  [outcome |-> IF upd.ok THEN "returned" ELSE "AtomValenceException",
                 rule |-> rule, edited |-> edited,
                 mol |-> IF upd.ok THEN SetAtom(new.atoms, id, upd.atom) ELSE <<>>,
                 arg |-> ArgumentAfter(mol, new, id, upd.atom)]
    IN  IF Rule1Applies(pka, pH, Tot_Hs, charge)
        THEN finish(1, IF Ex_Hs > 0
                       THEN [atom EXCEPT !.charge = charge - 1, !.ExHs = Ex_Hs - 1]
                       ELSE [atom EXCEPT !.charge = charge - 1])
        ELSE IF Rule2Applies(pka, pH, Tot_Hs, charge)
        THEN finish(2, IF Tot_Hs = 0 \/ Ex_Hs > 0
                       THEN [atom EXCEPT !.charge = charge + 1, !.ExHs = Ex_Hs + 1]
                       ELSE [atom EXCEPT !.charge = charge + 1])
        ELSE [outcome |-> "SyntaxError", rule |-> 3, edited |-> atom,
              mol |-> <<>>, arg |-> mol]

\* sort_conjugates: the member with the higher charge at the site is "protonated"
sort_conjugates(mol, conj, indx) ==
    LET charge_mol == GetAtomWithIdx(mol, indx).charge
        charge_conj == GetAtomWithIdx(conj, indx).charge
    IN  IF charge_mol < charge_conj
        THEN << [prot |-> conj, deprot |-> mol, idx |-> indx] >>
        ELSE IF charge_mol > charge_conj
        THEN << [prot |-> mol, deprot |-> conj, idx |-> indx] >>
        ELSE <<>>

NoCall == [mol |-> <<>>, id |-> 0, pka |-> 0, pH |-> 0]

NoOutcome ==
    [outcome |-> "none", rule |-> 0, edited |-> <<>>, mol |-> <<>>, arg |-> <<>>]

\* ----------------------------------------------------- get_ionization_indices
\* the variants handed in: nitrogen chains of 1..MaxAtoms atoms, any charges
VariantMols ==
    UNION { { [i \in 1..n |->
                 SmilesAtom(NITROGEN, cs[i],
                            ChainBonds(n, [j \in 1..(n - 1) |-> 1], i))] :
                cs \in [1..n -> Charges] }
            : n \in 1..MaxAtoms }

VariantLists == UNION { [1..k -> VariantMols] : k \in 1..MaxVariants }

\* atoms[:, i]: the formal charges of atom i in the variants
ChargeColumn(lst, i) ==
    { GetAtomWithIdx(lst[k], i).charge : k \in 1..Len(lst) }

\* ChargesDiffer when "> 1" reads ">= 1"
ChargesDiffer_AtLeastOne(lst, i) == Cardinality(ChargeColumn(lst, i)) >= 1

\* "if len(set(list(atoms[:, i]))) > 1"
ChargesDiffer(lst, i) == Cardinality(ChargeColumn(lst, i)) > 1

\* IonIdx with ion_idx.insert(0, i) for ion_idx.append(i)
RECURSIVE IonIdx_Prepend(_, _)
IonIdx_Prepend(lst, n) ==
    IF n = 0 THEN <<>>
    ELSE IF ChargesDiffer(lst, n - 1)
         THEN <<n - 1>> \o IonIdx_Prepend(lst, n - 1)
         ELSE IonIdx_Prepend(lst, n - 1)

\* "for i in range(atoms.shape[1])" over the first n atoms
RECURSIVE IonIdx(_, _)
IonIdx(lst, n) ==
    IF n = 0 THEN <<>>
    ELSE IF ChargesDiffer(lst, n - 1)
         THEN Append(IonIdx(lst, n - 1), n - 1)
         ELSE IonIdx(lst, n - 1)

\* SameAtomCount without the assert
SameAtomCount_NoAssert(lst) == TRUE

\* "assert len(set([len(mol.GetAtoms()) for mol in mol_lst])) == 1"
SameAtomCount(lst) ==
    Cardinality({ Len(lst[k]) : k \in 1..Len(lst) }) = 1

\* the shortest variant: the columns a ragged charge table can still offer
RECURSIVE MinAtoms(_)
MinAtoms(lst) ==
    IF Len(lst) = 1 THEN Len(lst[1])
    ELSE LET m == MinAtoms(Tail(lst))
         IN  IF Len(lst[1]) <= m THEN Len(lst[1]) ELSE m

get_ionization_indices(lst) ==
    IF ~SameAtomCount(lst)
    THEN [outcome |-> "AssertionError", ion_idx |-> <<>>]
    ELSE [outcome |-> "returned", ion_idx |-> IonIdx(lst, MinAtoms(lst))]

NoIndices == [outcome |-> "none", ion_idx |-> <<>>]

\* np.sum([a.GetFormalCharge() for a in mol.GetAtoms()])
RECURSIVE NetCharge(_)
NetCharge(mol) ==
    IF mol = <<>> THEN 0 ELSE mol[1].charge + NetCharge(Tail(mol))

\* ------------------------------------------- feature encoders (constants.py)
\* node_feature_values["element"], ["formal_charge"], ["total_num_Hs"]
ELEMENT_VALUES == <<1, 6, 7, 8, 9, 15, 16, 17, 33, 35, 53>>

FORMAL_CHARGE_VALUES == <<-1, 0, 1>>

TOTAL_NUM_HS_VALUES == <<0, 1, 2, 3>>

\* edge_feature_values["bond_type"], in units of 0.1
BOND_TYPE_VALUES == <<10, 15, 20, 30>>

\* list(map(lambda s: int(value == s), values))
OneHot(values, value) ==
    [k \in 1..Len(values) |-> IF value = values[k] THEN 1 ELSE 0]

\* what a feature function returns: a list (one-hot) or a single boolean
ListOutput(bits) == [list |-> TRUE, out |-> bits]

BoolOutput(b) == [list |-> FALSE, out |-> <<IF b THEN 1 ELSE 0>>]

\* NODE_FEATURES[name](atom, i, marvin_atom)
NODE_FEATURES(name, atom, i, marvin_atom) ==
    CASE name = "element" -> ListOutput(OneHot(ELEMENT_VALUES, atom.el))
      [] name = "formal_charge" ->
            ListOutput(OneHot(FORMAL_CHARGE_VALUES, atom.charge))
      [] name = "total_num_Hs" ->
            ListOutput(OneHot(TOTAL_NUM_HS_VALUES, GetTotalNumHs(atom)))
      [] name = "reaction_center" -> BoolOutput(i = marvin_atom)

\* the order of the i-th bond of a chain (between atoms i-1 and i, 0-based),
\* in units of 0.1: bond.GetBondTypeAsDouble()
RECURSIVE GetBondTypeAsDouble(_, _)
GetBondTypeAsDouble(mol, i) ==
    IF i = 1 THEN 10 * mol[1].bonds
    ELSE 10 * mol[i].bonds - GetBondTypeAsDouble(mol, i - 1)

\* bond.GetIsConjugated() of the i-th bond of a chain, for the single bond
\* between two multiple bonds; the chains handed to make_edges_and_attr
\* here are single-bonded, so none of their bonds is conjugated
GetIsConjugated(mol, i) ==
    /\ i > 1
    /\ i < Len(mol) - 1
    /\ GetBondTypeAsDouble(mol, i) = 10
    /\ GetBondTypeAsDouble(mol, i - 1) > 10
    /\ GetBondTypeAsDouble(mol, i + 1) > 10

\* EDGE_FEATURES[name](bond)
EDGE_FEATURES(name, mol, i) ==
    CASE name = "bond_type" ->
            ListOutput(OneHot(BOND_TYPE_VALUES, GetBondTypeAsDouble(mol, i)))
      [] name = "is_conjugated" -> BoolOutput(GetIsConjugated(mol, i))

\* np.array(xi) of one row: the outputs nest into a regular array when all
\* are booleans or all are lists of one length
Regular(row) ==
    \/ \A f \in 1..Len(row) : ~row[f].list
    \/ /\ \A f \in 1..Len(row) : row[f].list
       /\ \A f, g \in 1..Len(row) : Len(row[f].out) = Len(row[g].out)

\* torch.tensor(np.array([np.array(xi) for xi in x]), dtype=torch.float):
\* booleans give a matrix rows x features, equal-length lists a 3-d tensor
\* rows x features x length; ragged rows make numpy or torch raise
ToTensor(x) ==
    IF \E r \in 1..Len(x) : ~Regular(x[r])
    THEN [outcome |-> "error", ndim |-> 0, x |-> <<>>]
    ELSE IF \A r \in 1..Len(x) : \A f \in 1..Len(x[r]) : ~x[r][f].list
    THEN [outcome |-> "returned", ndim |-> 2,
          x |-> [r \in 1..Len(x) |-> [f \in 1..Len(x[r]) |-> x[r][f].out[1]]]]
    ELSE [outcome |-> "returned", ndim |-> 3,
          x |-> [r \in 1..Len(x) |-> [f \in 1..Len(x[r]) |-> x[r][f].out]]]

\* make_nodes: node.append(feat(atom, i, marvin_atom)) for every feature,
\* x.append(node) for every atom
make_nodes(mol, marvin_atom, n_features) ==
    ToTensor([r \in 1..Len(mol) |->
                [f \in 1..Len(n_features) |->
                   NODE_FEATURES(n_features[f], GetAtomWithIdx(mol, r - 1),
                                 r - 1, marvin_atom)]])

\* make_edges_and_attr: two columns (begin, end), (end, begin) per bond in
\* edge_index and the bond's feature outputs twice in edge_attr; np.hstack
\* raises on a molecule without bonds
make_edges_and_attr(mol, e_features) ==
    LET nb == Len(mol) - 1
        edge(b) == [f \in 1..Len(e_features) |-> EDGE_FEATURES(e_features[f], mol, b)]
        attr == ToTensor([c \in 1..(2 * nb) |-> edge((c + 1) \div 2)])
    IN  IF nb = 0 \/ attr.outcome = "error"
        THEN [outcome |-> "error", edge_index |-> <<>>, edge_attr |-> <<>>]
        ELSE [outcome |-> "returned",
              edge_index |->
                 << [c \in 1..(2 * nb) |->
                       IF c % 2 = 1 THEN (c + 1) \div 2 - 1 ELSE c \div 2],
                    [c \in 1..(2 * nb) |->
                       IF c % 2 = 1 THEN (c + 1) \div 2 ELSE c \div 2 - 1] >>,
              edge_attr |-> attr.x]

\* mol_to_features(row, n_features, e_features, protonation_state) on the
\* molecule of that state
mol_to_features(mol, marvin_atom, n_features, e_features) ==
    LET node == make_nodes(mol, marvin_atom, n_features)
        edges == make_edges_and_attr(mol, e_features)
    IN  IF node.outcome = "error" \/ edges.outcome = "error"
        THEN [outcome |-> "error"]
        ELSE [outcome |-> "returned", node |-> node.x,
              edge_index |-> edges.edge_index, edge_attr |-> edges.edge_attr,
              charge |-> NetCharge(mol)]

\* mol_to_paired_mol_data(row, n_features, e_features) and PairData.__init__
mol_to_paired_mol_data(row, n_features, e_features) ==
    LET p == mol_to_features(row.protonated, row.marvin_atom, n_features, e_features)
        d == mol_to_features(row.deprotonated, row.marvin_atom, n_features, e_features)
    IN  IF p.outcome = "error" \/ d.outcome = "error"
        THEN [outcome |-> "error"]
        ELSE [outcome |-> "returned",
              edge_index_p |-> p.edge_index, edge_index_d |-> d.edge_index,
              x_p |-> p.node, x_d |-> d.node,
              edge_attr_p |-> p.edge_attr, edge_attr_d |-> d.edge_attr,
              charge_prot |-> p.charge, charge_deprot |-> d.charge,
              num_nodes |-> Len(p.node)]

\* single-bonded chains of 1..n atoms of the given elements and charges
ChainMols(n_max, els, chs) ==
    UNION { { [i \in 1..n |->
                 SmilesAtom(e[i], c[i], ChainBonds(n, [j \in 1..(n - 1) |-> 1], i))] :
                <<e, c>> \in [1..n -> els] \X [1..n -> chs] }
            : n \in 1..n_max }

\* feat_list of make_features_dicts: lists of names without repetition
FeatureLists(names) ==
    UNION { { l \in [1..k -> names] : \A i, j \in 1..k : l[i] = l[j] => i = j }
            : k \in 0..Cardinality(names) }

\* the node features modelled; boron is not in ELEMENT_VALUES
NodeFeatureNames == {"element", "formal_charge", "total_num_Hs", "reaction_center"}

NodeMols == ChainMols(MaxAtoms, {5, NITROGEN}, Charges)

\* the rows handed to the pair builder: any two molecules, and feature
\* selections of one boolean, one list, and lists of different lengths
PairMols == ChainMols(MaxPairAtoms, {NITROGEN}, {0, 1})

PairNodeFeatureLists ==
    { <<"reaction_center">>, <<"formal_charge">>, <<"element", "formal_charge">> }

PairEdgeFeatureLists == { <<>>, <<"bond_type">> }

NoNodesCall == [mol |-> <<>>, marvin_atom |-> 0, n_features |-> <<>>]

NoTensor == [outcome |-> "none", ndim |-> 0, x |-> <<>>]

NoRow ==
    [protonated |-> <<>>, deprotonated |-> <<>>, marvin_atom |-> 0,
     n_features |-> <<>>, e_features |-> <<>>]

NoPairData == [outcome |-> "none"]

\* ------------------------------------------------------- make_features_dicts
\* the keys of NODE_FEATURES
NODE_FEATURES_KEYS ==
    {"element", "formal_charge", "is_in_ring", "amide_center_atom",
     "hybridization", "total_num_Hs", "aromatic_tag", "total_valence",
     "total_degree", "reaction_center"}

\* all_features.get(x): a name that is not a key raises nothing
KnownName_Get(all_features, x) == TRUE

\* all_features[x] raises KeyError unless x is a key
KnownName(all_features, x) == x \in all_features

\* the keys of {x: all_features[x] for x in feat_list[:n]} in insertion order:
\* a name met again keeps its place
RECURSIVE DictKeys(_, _)
DictKeys(feat_list, n) ==
    IF n = 0 THEN <<>>
    ELSE LET keys == DictKeys(feat_list, n - 1)
         IN  IF \E i \in 1..Len(keys) : keys[i] = feat_list[n]
             THEN keys
             ELSE Append(keys, feat_list[n])

make_features_dicts(all_features, feat_list) ==
    IF \E i \in 1..Len(feat_list) : ~KnownName(all_features, feat_list[i])
    THEN [outcome |-> "KeyError", keys |-> <<>>]
    ELSE [outcome |-> "returned", keys |-> DictKeys(feat_list, Len(feat_list))]

\* the names requested: three keys of NODE_FEATURES and "smarts" of
\* query.node_feat_list, in lists of up to MaxRequested names
RequestNames == {"element", "formal_charge", "reaction_center", "smarts"}

RequestLists == UNION { [1..k -> RequestNames] : k \in 0..MaxRequested }

NoFeatCall == [all_features |-> {}, feat_list |-> <<>>]

NoDict == [outcome |-> "none", keys |-> <<>>]

\* the calls of make_edges_and_attr: chains with 0..MaxPairAtoms-1 bonds and
\* every selection of the edge features modelled
EdgeFeatureNames == {"bond_type", "is_conjugated"}

NoEdgesCall == [mol |-> <<>>, e_features |-> <<>>]

NoEdges == [outcome |-> "none", edge_index |-> <<>>, edge_attr |-> <<>>]

\* ------------------------------------------------------------------- states
\* a query: start_mol is mol after the pH 7 canonicalisation, mols = [mol],
\* pkas = [], atoms = [], matches from get_ionization_indices
InitQuery ==
    /\ pc = "acid"
    /\ start_mol \in Molecules
    /\ mols = <<start_mol>>
    /\ matches \in SiteLists(Len(start_mol))
    /\ pkas = <<>>
    /\ atoms = <<>>
    /\ acid_pairs = <<>>
    /\ base_pairs = <<>>
    /\ scores = <<>>
    /\ iters = 0
    /\ in_order = TRUE
    /\ tied = FALSE
    /\ result = NoResult
    /\ requests = <<>>
    /\ cc_in = NoCall
    /\ cc_out = NoOutcome
    /\ cc_sorted = <<>>
    /\ mol_lst = <<>>
    /\ ion_idx = NoIndices
    /\ nodes_in = NoNodesCall
    /\ nodes_out = NoTensor
    /\ pair_in = NoRow
    /\ pair_out = NoPairData
    /\ edges_in = NoEdgesCall
    /\ edges_out = NoEdges
    /\ feat_in = NoFeatCall
    /\ feat_out = NoDict
    /\ query_model = QueryModel(model_path)

\* a row of the data set: molecule, marvin_atom, marvin_pKa
InitConjugate ==
    /\ pc = "conjugate"
    /\ \E mol \in Molecules, pka \in PkaInputs :
         \E id \in 0..(Len(mol) - 1) :
           cc_in = [mol |-> mol, id |-> id, pka |-> pka, pH |-> DEFAULT_PH]
    /\ cc_out = NoOutcome
    /\ cc_sorted = <<>>
    /\ start_mol = <<>>
    /\ mols = <<>>
    /\ matches = <<>>
    /\ pkas = <<>>
    /\ atoms = <<>>
    /\ acid_pairs = <<>>
    /\ base_pairs = <<>>
    /\ scores = <<>>
    /\ iters = 0
    /\ in_order = TRUE
    /\ tied = FALSE
    /\ result = NoResult
    /\ requests = <<>>
    /\ mol_lst = <<>>
    /\ ion_idx = NoIndices
    /\ nodes_in = NoNodesCall
    /\ nodes_out = NoTensor
    /\ pair_in = NoRow
    /\ pair_out = NoPairData
    /\ edges_in = NoEdgesCall
    /\ edges_out = NoEdges
    /\ feat_in = NoFeatCall
    /\ feat_out = NoDict
    /\ query_model = QueryModel(model_path)

\* a list of protonation variants for get_ionization_indices
InitIndices ==
    /\ pc = "indices"
    /\ mol_lst \in VariantLists
    /\ ion_idx = NoIndices
    /\ cc_in = NoCall
    /\ cc_out = NoOutcome
    /\ cc_sorted = <<>>
    /\ start_mol = <<>>
    /\ mols = <<>>
    /\ matches = <<>>
    /\ pkas = <<>>
    /\ atoms = <<>>
    /\ acid_pairs = <<>>
    /\ base_pairs = <<>>
    /\ scores = <<>>
    /\ iters = 0
    /\ in_order = TRUE
    /\ tied = FALSE
    /\ result = NoResult
    /\ requests = <<>>
    /\ nodes_in = NoNodesCall
    /\ nodes_out = NoTensor
    /\ pair_in = NoRow
    /\ pair_out = NoPairData
    /\ edges_in = NoEdgesCall
    /\ edges_out = NoEdges
    /\ feat_in = NoFeatCall
    /\ feat_out = NoDict
    /\ query_model = QueryModel(model_path)

\* the values of the variables of the other modes
QueryIdle ==
    /\ start_mol = <<>>
    /\ mols = <<>>
    /\ matches = <<>>
    /\ pkas = <<>>
    /\ atoms = <<>>
    /\ acid_pairs = <<>>
    /\ base_pairs = <<>>
    /\ scores = <<>>
    /\ iters = 0
    /\ in_order = TRUE
    /\ tied = FALSE
    /\ result = NoResult
    /\ requests = <<>>
    /\ cc_in = NoCall
    /\ cc_out = NoOutcome
    /\ cc_sorted = <<>>
    /\ mol_lst = <<>>
    /\ ion_idx = NoIndices
    /\ query_model = QueryModel(model_path)

\* a call make_nodes(mol, marvin_atom, n_features)
InitNodes ==
    /\ pc = "nodes"
    /\ \E mol \in NodeMols, n_features \in FeatureLists(NodeFeatureNames) :
         \E marvin_atom \in 0..(Len(mol) - 1) :
           nodes_in = [mol |-> mol, marvin_atom |-> marvin_atom,
                       n_features |-> n_features]
    /\ nodes_out = NoTensor
    /\ pair_in = NoRow
    /\ pair_out = NoPairData
    /\ edges_in = NoEdgesCall
    /\ edges_out = NoEdges
    /\ feat_in = NoFeatCall
    /\ feat_out = NoDict
    /\ QueryIdle

\* a call mol_to_paired_mol_data(row, n_features, e_features)
InitPair ==
    /\ pc = "pair"
    /\ \E prot \in PairMols, deprot \in PairMols,
          n_features \in PairNodeFeatureLists, e_features \in PairEdgeFeatureLists :
         \E marvin_atom \in 0..(Len(prot) - 1) :
           pair_in = [protonated |-> prot, deprotonated |-> deprot,
                      marvin_atom |-> marvin_atom,
                      n_features |-> n_features, e_features |-> e_features]
    /\ pair_out = NoPairData
    /\ nodes_in = NoNodesCall
    /\ nodes_out = NoTensor
    /\ edges_in = NoEdgesCall
    /\ edges_out = NoEdges
    /\ feat_in = NoFeatCall
    /\ feat_out = NoDict
    /\ QueryIdle

\* a call make_edges_and_attr(mol, e_features)
InitEdges ==
    /\ pc = "edges"
    /\ \E mol \in PairMols, e_features \in FeatureLists(EdgeFeatureNames) :
         edges_in = [mol |-> mol, e_features |-> e_features]
    /\ edges_out = NoEdges
    /\ nodes_in = NoNodesCall
    /\ nodes_out = NoTensor
    /\ pair_in = NoRow
    /\ pair_out = NoPairData
    /\ feat_in = NoFeatCall
    /\ feat_out = NoDict
    /\ QueryIdle

\* a call make_features_dicts(NODE_FEATURES, feat_list)
InitFeatures ==
    /\ pc = "features"
    /\ \E feat_list \in RequestLists :
         feat_in = [all_features |-> NODE_FEATURES_KEYS, feat_list |-> feat_list]
    /\ feat_out = NoDict
    /\ nodes_in = NoNodesCall
    /\ nodes_out = NoTensor
    /\ pair_in = NoRow
    /\ pair_out = NoPairData
    /\ edges_in = NoEdgesCall
    /\ edges_out = NoEdges
    /\ QueryIdle

\* query.py was imported: query_model = QueryModel(model_path)
InitModel ==
    /\ pc = "model"
    /\ nodes_in = NoNodesCall
    /\ nodes_out = NoTensor
    /\ pair_in = NoRow
    /\ pair_out = NoPairData
    /\ edges_in = NoEdgesCall
    /\ edges_out = NoEdges
    /\ feat_in = NoFeatCall
    /\ feat_out = NoDict
    /\ QueryIdle

Init ==
    InitQuery \/ InitConjugate \/ InitIndices \/ InitNodes \/ InitPair
       \/ InitEdges \/ InitFeatures \/ InitModel

\* an iteration of the first "while True" of mol_query, up to the return of
\* match_pka: get_possible_reactions(mols[0], matches), then acid_sequence
\* asks the regressor for the scores of acid_pairs (if there are any)
AcidScore ==
    /\ pc = "acid"
    /\ iters' = iters + 1
    /\ \E r \in {get_possible_reactions(mols[1], matches)} :
           /\ mols' = [mols EXCEPT ![1] = r.mol]
           /\ IF r.raised
              THEN /\ pc' = "aborted"
                   /\ UNCHANGED <<acid_pairs, base_pairs, scores, requests>>
              ELSE /\ pc' = "acid_scored"
                   /\ acid_pairs' = r.acid_pairs
                   /\ base_pairs' = r.base_pairs
                   /\ requests' = match_pka_calls(r.acid_pairs)
                   /\ scores' \in ScoreLists(Len(r.acid_pairs), AcidScores)
    /\ tied' = FALSE
    /\ UNCHANGED <<start_mol, pkas, atoms, matches, in_order, result,
                   cc_in, cc_out, cc_sorted>>
    /\ UNCHANGED idx_vars
    /\ UNCHANGED enc_vars
    /\ UNCHANGED query_model

\* the rest of the iteration: acid_sequence picks and inserts, the loop
\* breaks if pkas did not grow
AcidSelect ==
    /\ pc = "acid_scored"
    /\ \E out \in {acid_sequence(acid_pairs, mols, pkas, atoms, scores)} :
           /\ mols' = out.mols
           /\ pkas' = out.pkas
           /\ atoms' = out.atoms
           /\ in_order' = (in_order /\
                 (Len(out.pkas) > Len(pkas) =>
                    \A i \in 1..Len(pkas) : SeqMax(scores) <= pkas[i]))
           /\ tied' = (/\ Len(out.pkas) > Len(pkas)
                       /\ \E i, j \in 1..Len(scores) :
                             i # j /\ scores[i] = SeqMax(scores)
                                   /\ scores[j] = SeqMax(scores))
           /\ pc' = IF Len(pkas) >= Len(out.pkas) THEN "base" ELSE "acid"
    /\ acid_pairs' = <<>>
    /\ base_pairs' = <<>>
    /\ scores' = <<>>
    /\ requests' = <<>>
    /\ UNCHANGED <<start_mol, matches, iters, result, cc_in, cc_out, cc_sorted>>
    /\ UNCHANGED idx_vars
    /\ UNCHANGED enc_vars
    /\ UNCHANGED query_model

\* an iteration of the second "while True" of mol_query, up to the return of
\* match_pka: get_possible_reactions(mols[-1], matches), then base_sequence
\* asks the regressor for the scores of base_pairs (if there are any)
BaseScore ==
    /\ pc = "base"
    /\ iters' = iters + 1
    /\ \E r \in {get_possible_reactions(mols[Len(mols)], matches)} :
           /\ mols' = [mols EXCEPT ![Len(mols)] = r.mol]
           /\ IF r.raised
              THEN /\ pc' = "aborted"
                   /\ UNCHANGED <<acid_pairs, base_pairs, scores, requests>>
              ELSE /\ pc' = "base_scored"
                   /\ acid_pairs' = r.acid_pairs
                   /\ base_pairs' = r.base_pairs
                   /\ requests' = match_pka_calls(r.base_pairs)
                   /\ scores' \in ScoreLists(Len(r.base_pairs), BaseScores)
    /\ tied' = FALSE
    /\ UNCHANGED <<start_mol, pkas, atoms, matches, in_order, result,
                   cc_in, cc_out, cc_sorted>>
    /\ UNCHANGED idx_vars
    /\ UNCHANGED enc_vars
    /\ UNCHANGED query_model

\* the rest of the iteration: base_sequence picks and appends; if pkas did
\* not grow the loop breaks, mol_tuples is built and mol_query returns
BaseSelect ==
    /\ pc = "base_scored"
    /\ \E out \in {base_sequence(base_pairs, mols, pkas, atoms, scores)} :
           /\ mols' = out.mols
           /\ pkas' = out.pkas
           /\ atoms' = out.atoms
           /\ in_order' = (in_order /\
                 (Len(out.pkas) > Len(pkas) =>
                    \A i \in 1..Len(pkas) : pkas[i] <= SeqMin(scores)))
           /\ tied' = (/\ Len(out.pkas) > Len(pkas)
                       /\ \E i, j \in 1..Len(scores) :
                             i # j /\ scores[i] = SeqMin(scores)
                                   /\ scores[j] = SeqMin(scores))
           /\ IF Len(pkas) >= Len(out.pkas)
              THEN /\ pc' = "done"
                   /\ result' = [mol |-> MolTuples(out.mols),
                                 pka |-> out.pkas, atom |-> out.atoms]
              ELSE /\ pc' = "base"
                   /\ UNCHANGED result
    /\ acid_pairs' = <<>>
    /\ base_pairs' = <<>>
    /\ scores' = <<>>
    /\ requests' = <<>>
    /\ UNCHANGED <<start_mol, matches, iters, cc_in, cc_out, cc_sorted>>
    /\ UNCHANGED idx_vars
    /\ UNCHANGED enc_vars
    /\ UNCHANGED query_model

\* conjugates_to_dataframe: create_conjugate(mol, index, pka)
CreateConjugate ==
    /\ pc = "conjugate"
    /\ cc_out' = create_conjugate(cc_in.mol, cc_in.id, cc_in.pka, cc_in.pH)
    /\ cc_in' = [cc_in EXCEPT !.mol = cc_out'.arg]
    /\ pc' = IF cc_out'.outcome = "returned" THEN "sort" ELSE "cc_raised"
    /\ UNCHANGED <<start_mol, mols, pkas, atoms, matches, acid_pairs,
                   base_pairs, scores, iters, in_order, tied, result, requests,
                   cc_sorted>>
    /\ UNCHANGED idx_vars
    /\ UNCHANGED enc_vars
    /\ UNCHANGED query_model

\* sort_conjugates on the row
SortConjugates ==
    /\ pc = "sort"
    /\ cc_sorted' = sort_conjugates(cc_in.mol, cc_out.mol, cc_in.id)
    /\ pc' = "sorted"
    /\ UNCHANGED <<start_mol, mols, pkas, atoms, matches, acid_pairs,
                   base_pairs, scores, iters, in_order, tied, result, requests,
                   cc_in, cc_out>>
    /\ UNCHANGED idx_vars
    /\ UNCHANGED enc_vars
    /\ UNCHANGED query_model

\* get_ionization_indices(mol_lst)
GetIonizationIndices ==
    /\ pc = "indices"
    /\ ion_idx' = get_ionization_indices(mol_lst)
    /\ pc' = IF ion_idx'.outcome = "returned" THEN "indices_done"
             ELSE "indices_raised"
    /\ UNCHANGED <<mol_lst, query_vars, cc_vars>>
    /\ UNCHANGED enc_vars
    /\ UNCHANGED query_model

\* make_nodes(mol, marvin_atom, n_features)
MakeNodes ==
    /\ pc = "nodes"
    /\ nodes_out' = make_nodes(nodes_in.mol, nodes_in.marvin_atom, nodes_in.n_features)
    /\ pc' = IF nodes_out'.outcome = "returned" THEN "nodes_done" ELSE "nodes_raised"
    /\ UNCHANGED <<nodes_in, pair_in, pair_out, edges_in, edges_out,
                   feat_in, feat_out, query_vars, cc_vars, idx_vars>>
    /\ UNCHANGED query_model

\* mol_to_paired_mol_data(row, n_features, e_features)
MolToPairedMolData ==
    /\ pc = "pair"
    /\ pair_out' = mol_to_paired_mol_data(pair_in, pair_in.n_features,
                                          pair_in.e_features)
    /\ pc' = IF pair_out'.outcome = "returned" THEN "pair_done" ELSE "pair_raised"
    /\ UNCHANGED <<pair_in, nodes_in, nodes_out, edges_in, edges_out,
                   feat_in, feat_out, query_vars, cc_vars, idx_vars>>
    /\ UNCHANGED query_model

\* make_edges_and_attr(mol, e_features)
MakeEdgesAndAttr ==
    /\ pc = "edges"
    /\ edges_out' = make_edges_and_attr(edges_in.mol, edges_in.e_features)
    /\ pc' = IF edges_out'.outcome = "returned" THEN "edges_done" ELSE "edges_raised"
    /\ UNCHANGED <<edges_in, nodes_in, nodes_out, pair_in, pair_out,
                   feat_in, feat_out, query_vars, cc_vars, idx_vars>>
    /\ UNCHANGED query_model

\* make_features_dicts(all_features, feat_list)
MakeFeaturesDicts ==
    /\ pc = "features"
    /\ feat_out' = make_features_dicts(feat_in.all_features, feat_in.feat_list)
    /\ pc' = IF feat_out'.outcome = "returned" THEN "features_done"
             ELSE "features_raised"
    /\ UNCHANGED <<feat_in, edges_in, edges_out, nodes_in, nodes_out, pair_in,
                   pair_out, query_vars, cc_vars, idx_vars>>
    /\ UNCHANGED query_model

\* QueryModel(path): a new object takes the place of the old one
NewQueryModel ==
    /\ pc \in {"model", "model_set"}
    /\ \E path \in ModelPaths : query_model' = QueryModel(path)
    /\ pc' = "model_set"
    /\ UNCHANGED <<query_vars, cc_vars, idx_vars, enc_vars>>

\* set_model_path(new_path)
SetModelPath ==
    /\ pc \in {"model", "model_set"}
    /\ \E new_path \in ModelPaths :
         query_model' = set_model_path(new_path, query_model)
    /\ pc' = "model_set"
    /\ UNCHANGED <<query_vars, cc_vars, idx_vars, enc_vars>>

Next ==
    \/ AcidScore
    \/ AcidSelect
    \/ BaseScore
    \/ BaseSelect
    \/ CreateConjugate
    \/ SortConjugates
    \/ GetIonizationIndices
    \/ MakeNodes
    \/ MolToPairedMolData
    \/ MakeEdgesAndAttr
    \/ MakeFeaturesDicts
    \/ NewQueryModel
    \/ SetModelPath

Spec == Init /\ [][Next]_vars

\* a call of mol_query on its own: the two loops run without interruption
\* (single-threaded, the regressor call blocks and returns)
QueryNext == AcidScore \/ AcidSelect \/ BaseScore \/ BaseSelect

QuerySpec == InitQuery /\ [][QueryNext]_vars /\ WF_vars(QueryNext)

\* ---------------------------------------------------------------- properties
InQuery == pc \in {"acid", "acid_scored", "base", "base_scored", "done", "aborted"}

ConjugateCalled == pc \in {"sort", "sorted", "cc_raised"}

Sorted(s) == \A i \in 1..(Len(s) - 1) : s[i] <= s[i + 1]

\* the pairs the current call of get_possible_reactions returned
PairsBuilt ==
    { acid_pairs[k] : k \in 1..Len(acid_pairs) }
       \cup { base_pairs[k] : k \in 1..Len(base_pairs) }

\* the molecule the current iteration works on
CurrentMol == IF pc = "acid_scored" THEN mols[1] ELSE mols[Len(mols)]

\* the candidates the current iteration scores
Candidates == IF pc = "acid_scored" THEN acid_pairs ELSE base_pairs

\* the sites whose acid conjugate cannot be built on the current molecule
AcidFailures ==
    { k \in 1..Len(matches) :
        LET atom == GetAtomWithIdx(CurrentMol, matches[k])
        IN  AcidValid(atom) /\ ~UpdatePropertyCache(AcidEdit(atom)).ok }

\* C1 as stated: the returned pKa list is non-decreasing for every molecule
\* and every sequence of scores
C1_SortedForAnyScores == pc = "done" => Sorted(result.pka)

\* C1 amended: the pKa list is non-decreasing whenever the scores arrive in
\* order, that is every accepted acid pKa is no higher and every accepted
\* base pKa no lower than the pKas accepted before it
C1_SortedWhenScoresInOrder ==
    /\ (InQuery /\ in_order) => Sorted(pkas)
    /\ (pc = "done" /\ in_order) => Sorted(result.pka)

C1_Witness ==
    /\ pc = "done"
    /\ in_order
    /\ Len(result.pka) >= 3
    /\ result.pka[1] < result.pka[Len(result.pka)]
    /\ mols[1] # start_mol
    /\ mols[Len(mols)] # start_mol

C3_AcidStep ==
    [][ pc = "acid_scored" =>
          IF acid_pairs # <<>> /\ \E i \in 1..Len(scores) : scores[i] >= ACID_MIN_PKA
          THEN /\ \E i \in 1..Len(acid_pairs) :
                    /\ \A j \in 1..Len(scores) : scores[j] <= scores[i]
                    /\ pkas' = <<scores[i]>> \o pkas
                    /\ mols' = <<acid_pairs[i].prot>> \o mols
                    /\ atoms' = <<acid_pairs[i].idx>> \o atoms
                    /\ acid_pairs[i].deprot = mols[1]
               /\ pc' = "acid"
          ELSE /\ mols' = mols
               /\ pkas' = pkas
               /\ atoms' = atoms
               /\ pc' = "base" ]_vars

\* an acid step was accepted at exactly 0.5 and a second one after it
C3_Witness ==
    /\ pc = "acid"
    /\ Len(pkas) >= 2
    /\ pkas[2] = ACID_MIN_PKA
    /\ NetCharge(mols[1]) = NetCharge(mols[2]) + 1

\* C4: a base iteration with candidates takes one with the minimum score; a
\* minimum <= 13.5 appends its pKa, its deprotonated molecule and its atom
\* index to the three lists; otherwise the lists stay unchanged and the base
\* phase ends
C4_BaseStep ==
    [][ pc = "base_scored" =>
          IF base_pairs # <<>> /\ \E i \in 1..Len(scores) : scores[i] <= BASE_MAX_PKA
          THEN /\ \E i \in 1..Len(base_pairs) :
                    /\ \A j \in 1..Len(scores) : scores[i] <= scores[j]
                    /\ pkas' = Append(pkas, scores[i])
                    /\ mols' = Append(mols, base_pairs[i].deprot)
                    /\ atoms' = Append(atoms, base_pairs[i].idx)
                    /\ base_pairs[i].prot = mols[Len(mols)]
               /\ pc' = "base"
          ELSE /\ mols' = mols
               /\ pkas' = pkas
               /\ atoms' = atoms
               /\ pc' = "done" ]_vars

\* a base step was accepted at exactly 13.5 and a second one after it
C4_Witness ==
    /\ pc = "base"
    /\ mols[1] = start_mol
    /\ Len(pkas) >= 2
    /\ pkas[1] = BASE_MAX_PKA
    /\ NetCharge(mols[Len(mols)]) = NetCharge(mols[1]) - 2

\* the candidates of the current iteration that hold the extremal score
Tied ==
    LET best == IF pc = "acid_scored" THEN SeqMax(scores) ELSE SeqMin(scores)
    IN  { i \in 1..Len(scores) : scores[i] = best }

\* C5: when several candidates of a step share the extremal score, the one
\* first in the order of the site list is added: molecule and atom index are
\* those of the tied candidate that no other tied candidate precedes
C5_FirstTiedCandidateWins ==
    [][ (pc \in {"acid_scored", "base_scored"} /\ Len(pkas') > Len(pkas)) =>
          \E i \in Tied :
            /\ \A j \in Tied : i <= j
            /\ \A j \in Tied : Candidates[i].idx <= Candidates[j].idx
            /\ IF pc = "acid_scored"
               THEN atoms'[1] = Candidates[i].idx /\ mols'[1] = Candidates[i].prot
               ELSE /\ atoms'[Len(atoms')] = Candidates[i].idx
                    /\ mols'[Len(mols')] = Candidates[i].deprot ]_vars

\* both sites of a two-site molecule were tied at the extremal score and
\* the step was accepted, in the acid phase and in the base phase
C5_Witness ==
    /\ tied
    /\ Len(matches) >= 2
    /\ \/ pc = "acid" /\ atoms[1] = matches[1]
       \/ pc = "base" /\ atoms[Len(atoms)] = matches[1] /\ mols[1] # start_mol

\* C6: a site whose conjugate cannot be built is left out of the returned
\* pairs, the other sites keep their pairs and the query does not abort
C6_FailureExcludesCandidate ==
    /\ pc # "aborted"
    /\ pc \in {"acid_scored", "base_scored"} =>
         \A k \in 1..Len(matches) :
            LET atom == GetAtomWithIdx(CurrentMol, matches[k])
            IN  /\ (\E i \in 1..Len(acid_pairs) : acid_pairs[i].idx = matches[k])
                      <=> (AcidValid(atom) /\ k \notin AcidFailures)
                /\ (\E i \in 1..Len(base_pairs) : base_pairs[i].idx = matches[k])
                      <=> BaseValid(atom)

\* the conjugate of one site could not be built and a later site has its
\* acid pair
C6_Witness ==
    /\ pc = "acid_scored"
    /\ AcidFailures # {}
    /\ \E k \in AcidFailures :
          \E i \in 1..Len(acid_pairs) : acid_pairs[i].idx > matches[k]

\* C7: the net formal charges of the two members of every pair built, by
\* every call of get_possible_reactions and by create_conjugate, differ by
\* exactly 1
C7_NetChargeDiffersByOne ==
    /\ InQuery =>
         \A p \in PairsBuilt :
            NetCharge(p.prot) - NetCharge(p.deprot) \in {-1, 1}
    /\ pc \in {"sort", "sorted"} =>
         NetCharge(cc_in.mol) - NetCharge(cc_out.mol) \in {-1, 1}
    /\ pc = "sorted" =>
         \A k \in 1..Len(cc_sorted) :
            NetCharge(cc_sorted[k].prot) - NetCharge(cc_sorted[k].deprot) \in {-1, 1}

C7_Witness ==
    /\ pc = "base_scored"
    /\ Len(pkas) >= 1
    /\ acid_pairs # <<>>
    /\ base_pairs # <<>>

\* C8: in every pair built the members have the same atom count, the only
\* atom whose formal charge differs is the pair's atom index, and there the
\* protonated member is higher by exactly 1
OneSiteApart(p) ==
    /\ Len(p.prot) = Len(p.deprot)
    /\ p.idx \in 0..(Len(p.prot) - 1)
    /\ \A i \in 0..(Len(p.prot) - 1) :
          GetAtomWithIdx(p.prot, i).charge =
             GetAtomWithIdx(p.deprot, i).charge + (IF i = p.idx THEN 1 ELSE 0)

C8_OneAtomOneCharge ==
    /\ InQuery => \A p \in PairsBuilt : OneSiteApart(p)
    /\ pc = "sorted" =>
         /\ Len(cc_sorted) = 1
         /\ OneSiteApart(cc_sorted[1])
         /\ cc_sorted[1].idx = cc_in.id

C8_Witness ==
    /\ pc = "base_scored"
    /\ mols[1] # start_mol
    /\ Len(base_pairs) >= 2
    /\ Len(acid_pairs) >= 1
    /\ base_pairs[1].idx # acid_pairs[1].idx

\* the atom create_conjugate was called on
CalledAtom == GetAtomWithIdx(cc_in.mol, cc_in.id)

FirstRuleCase ==
    \/ cc_in.pka > cc_in.pH /\ GetTotalNumHs(CalledAtom) > 0
    \/ CalledAtom.charge > 0

C10_ProtonationRules ==
    (/\ ConjugateCalled
     /\ ~FirstRuleCase
     /\ \/ cc_in.pka < cc_in.pH /\ CalledAtom.charge <= 0
        \/ cc_in.pka > cc_in.pH /\ GetTotalNumHs(CalledAtom) = 0) =>
        /\ cc_out.outcome # "SyntaxError"
        /\ cc_out.edited.charge = CalledAtom.charge + 1
        /\ cc_out.edited.ExHs =
             IF GetTotalNumHs(CalledAtom) = 0 \/ CalledAtom.ExHs > 0
             THEN CalledAtom.ExHs + 1
             ELSE CalledAtom.ExHs

\* the three conditions of the decision table, on the call's inputs
SecondRuleCase ==
    ~FirstRuleCase /\ cc_in.pka < cc_in.pH /\ CalledAtom.charge <= 0

ThirdRuleCase ==
    /\ ~FirstRuleCase
    /\ ~SecondRuleCase
    /\ cc_in.pka > cc_in.pH
    /\ GetTotalNumHs(CalledAtom) = 0

NoRuleCase == ~FirstRuleCase /\ ~SecondRuleCase /\ ~ThirdRuleCase

\* C11 as stated: create_conjugate fails exactly when none of the three
\* conditions holds; in every other case it returns a molecule whose formal
\* charge at the atom differs from the input's by exactly 1
C11_FailsExactlyWhenNoRule ==
    ConjugateCalled =>
        /\ (cc_out.outcome # "returned") <=> NoRuleCase
        /\ ~NoRuleCase =>
             /\ cc_out.outcome = "returned"
             /\ GetAtomWithIdx(cc_out.mol, cc_in.id).charge - CalledAtom.charge
                   \in {-1, 1}

\* the same formal charge and explicit-hydrogen count at every atom
SameProtonation(m1, m2) ==
    /\ Len(m1) = Len(m2)
    /\ \A i \in 1..Len(m1) :
          m1[i].charge = m2[i].charge /\ m1[i].ExHs = m2[i].ExHs

\* C12: the molecule handed to create_conjugate and the molecule handed to
\* get_possible_reactions have, after the call, whether it succeeds or fails,
\* the formal charge and the explicit-hydrogen count they had before at
\* every atom
C12_InputUnchanged ==
    [][ /\ pc = "conjugate" => SameProtonation(cc_in'.mol, cc_in.mol)
        /\ pc = "acid" => SameProtonation(mols'[1], mols[1])
        /\ pc = "base" =>
              SameProtonation(mols'[Len(mols)], mols[Len(mols)]) ]_vars

\* create_conjugate edited its copy and then failed the valence check
C12_Witness ==
    /\ pc = "cc_raised"
    /\ cc_out.outcome = "AtomValenceException"
    /\ cc_out.edited.charge # CalledAtom.charge
    /\ cc_out.edited.ExHs # CalledAtom.ExHs

\* the atom of the returned conjugate at the site of the call
ConjugateAtom == GetAtomWithIdx(cc_out.mol, cc_in.id)

\* create_conjugate applied again, to the conjugate, with the same pKa and pH
SecondCall == create_conjugate(cc_out.mol, cc_in.id, cc_in.pka, cc_in.pH)

\* C13 as stated: with pKa > pH, after the rule with charge delta -1 has
\* built the conjugate, a site that qualifies for the inverse rule (no first
\* rule case any more: no hydrogen left, charge not positive) gets its
\* original formal charge back from the second application
C13_RoundTripRestoresCharge ==
    (/\ pc \in {"sort", "sorted"}
     /\ cc_in.pka > cc_in.pH
     /\ cc_out.rule = 1
     /\ GetTotalNumHs(ConjugateAtom) = 0
     /\ ConjugateAtom.charge <= 0) =>
        /\ SecondCall.outcome = "returned"
        /\ GetAtomWithIdx(SecondCall.mol, cc_in.id).charge = CalledAtom.charge

\* the acid pairs of the current call built at a nitrogen of formal charge 0
NeutralNitrogenPairs ==
    { k \in 1..Len(acid_pairs) :
        LET site == GetAtomWithIdx(acid_pairs[k].deprot, acid_pairs[k].idx)
        IN  site.el = NITROGEN /\ site.charge = 0 }

IndicesCalled == pc \in {"indices_done", "indices_raised"}

\* the atom indices whose formal charge is not the same in all variants
IonizableAtoms ==
    { i \in 0..(Len(mol_lst[1]) - 1) :
        \E k, l \in 1..Len(mol_lst) :
           GetAtomWithIdx(mol_lst[k], i).charge # GetAtomWithIdx(mol_lst[l], i).charge }

\* C15: for variants of one atom count get_ionization_indices returns, in
\* strictly ascending order and so without duplicates, exactly the atom
\* indices whose formal charge is not the same in all variants
C15_ExactlyTheDifferingAtoms ==
    (IndicesCalled /\ \A k \in 1..Len(mol_lst) : Len(mol_lst[k]) = Len(mol_lst[1])) =>
        /\ ion_idx.outcome = "returned"
        /\ \A k \in 1..(Len(ion_idx.ion_idx) - 1) :
              ion_idx.ion_idx[k] < ion_idx.ion_idx[k + 1]
        /\ { ion_idx.ion_idx[k] : k \in 1..Len(ion_idx.ion_idx) } = IonizableAtoms

\* two variants of a two-atom molecule differ in charge at both atoms
C15_Witness ==
    /\ pc = "indices_done"
    /\ Len(mol_lst) >= 2
    /\ Len(ion_idx.ion_idx) >= 2

\* C16: for a list of more than one identical molecules the returned list
\* of sites is empty
C16_IdenticalVariantsNoSites ==
    (/\ IndicesCalled
     /\ Len(mol_lst) > 1
     /\ \A k \in 1..Len(mol_lst) : mol_lst[k] = mol_lst[1]) =>
        ion_idx = [outcome |-> "returned", ion_idx |-> <<>>]

C16_Witness ==
    /\ pc = "indices_done"
    /\ Len(mol_lst) > 1
    /\ \A k \in 1..Len(mol_lst) : mol_lst[k] = mol_lst[1]
    /\ Len(mol_lst[1]) >= 2
    /\ mol_lst[1][1].charge # mol_lst[1][2].charge
    /\ ion_idx.ion_idx = <<>>

\* C17: when the variants do not all have the same atom count,
\* get_ionization_indices fails and returns no site list
C17_AtomCountMismatchFails ==
    (IndicesCalled /\ \E k, l \in 1..Len(mol_lst) : Len(mol_lst[k]) # Len(mol_lst[l])) =>
        /\ pc = "indices_raised"
        /\ ion_idx = [outcome |-> "AssertionError", ion_idx |-> <<>>]

\* the variants have different atom counts and differ in charge at atom 0
C17_Witness ==
    /\ pc = "indices_raised"
    /\ Len(mol_lst) >= 2
    /\ Len(mol_lst[1]) # Len(mol_lst[2])
    /\ mol_lst[1][1].charge # mol_lst[2][1].charge

PairCalled == pc \in {"pair_done", "pair_raised"}

\* C18 as stated: the pair builder fails when the protonated and the
\* deprotonated molecule have different atom counts, and never returns a
\* pair whose two node matrices have different row counts
C18_AtomCountMismatchRejected ==
    PairCalled =>
        /\ Len(pair_in.protonated) # Len(pair_in.deprotonated) =>
              pair_out.outcome = "error"
        /\ pair_out.outcome = "returned" =>
              Len(pair_out.x_p) = Len(pair_out.x_d)

NodesCalled == pc \in {"nodes_done", "nodes_raised"}

\* the cardinality of a node feature: the length of its value list for a
\* one-hot feature, 1 for a boolean feature
Cardinality_Of(name) ==
    CASE name = "element" -> Len(ELEMENT_VALUES)
      [] name = "formal_charge" -> Len(FORMAL_CHARGE_VALUES)
      [] name = "total_num_Hs" -> Len(TOTAL_NUM_HS_VALUES)
      [] name = "reaction_center" -> 1

RECURSIVE SumOfCardinalities(_)
SumOfCardinalities(names) ==
    IF names = <<>> THEN 0
    ELSE Cardinality_Of(names[1]) + SumOfCardinalities(Tail(names))

\* C19 as stated: for every selection of node features, in every order,
\* every row of the matrix make_nodes returns has as many columns as the
\* cardinalities of the selected features add up to
C19_FeatureWidth ==
    NodesCalled =>
        /\ nodes_out.outcome = "returned"
        /\ nodes_out.ndim = 2
        /\ \A r \in 1..Len(nodes_out.x) :
              Len(nodes_out.x[r]) = SumOfCardinalities(nodes_in.n_features)

\* the outputs of the selected features for atom i, one after the other
RECURSIVE Concatenated(_, _)
Concatenated(names, i) ==
    IF names = <<>> THEN <<>>
    ELSE NODE_FEATURES(names[1], GetAtomWithIdx(nodes_in.mol, i), i,
                       nodes_in.marvin_atom).out
           \o Concatenated(Tail(names), i)

\* C20 as stated: make_nodes returns one row per atom in atom-index order,
\* row i being the outputs of the selected features for atom i concatenated
\* in the order of the selection; with [element, formal_charge,
\* reaction_center] the element block has a bit exactly at the atom's
\* element, the charge block exactly at the atom's formal charge, and the
\* last column is set if and only if i is the reaction centre
C20_RowsConcatenateFeatures ==
    NodesCalled =>
        /\ nodes_out.outcome = "returned"
        /\ nodes_out.ndim = 2
        /\ Len(nodes_out.x) = Len(nodes_in.mol)
        /\ \A r \in 1..Len(nodes_out.x) :
              nodes_out.x[r] = Concatenated(nodes_in.n_features, r - 1)
        /\ nodes_in.n_features = <<"element", "formal_charge", "reaction_center">> =>
              \A r \in 1..Len(nodes_out.x) :
                 LET row == nodes_out.x[r]
                     atom == GetAtomWithIdx(nodes_in.mol, r - 1)
                 IN  /\ \A k \in 1..11 :
                           row[k] = 1 <=> ELEMENT_VALUES[k] = atom.el
                     /\ \A k \in 1..3 :
                           row[11 + k] = 1 <=> FORMAL_CHARGE_VALUES[k] = atom.charge
                     /\ row[15] = 1 <=> r - 1 = nodes_in.marvin_atom

EdgesCalled == pc \in {"edges_done", "edges_raised"}

\* the outputs of the selected edge features for bond b, one after the other
RECURSIVE BondFeatureVector(_, _, _)
BondFeatureVector(mol, names, b) ==
    IF names = <<>> THEN <<>>
    ELSE EDGE_FEATURES(names[1], mol, b).out
           \o BondFeatureVector(mol, Tail(names), b)

\* C21: make_edges_and_attr yields 2 x (bond count) directed edges in bond
\* order: for the k-th bond (begin b, end e) column 2k of the edge index is
\* (b, e) and column 2k+1 is (e, b), and rows 2k and 2k+1 of the edge-feature
\* matrix both are the feature vector of that bond
C21_EdgesInBondOrder ==
    EdgesCalled =>
      LET mol == edges_in.mol
          nb == Len(mol) - 1
      IN  /\ edges_out.outcome = "returned"
          /\ Len(edges_out.edge_index) = 2
          /\ Len(edges_out.edge_index[1]) = 2 * nb
          /\ Len(edges_out.edge_index[2]) = 2 * nb
          /\ Len(edges_out.edge_attr) = 2 * nb
          /\ \A k \in 0..(nb - 1) :
               /\ edges_out.edge_index[1][2 * k + 1] = k
               /\ edges_out.edge_index[2][2 * k + 1] = k + 1
               /\ edges_out.edge_index[1][2 * k + 2] = k + 1
               /\ edges_out.edge_index[2][2 * k + 2] = k
               /\ edges_out.edge_attr[2 * k + 1] =
                    BondFeatureVector(mol, edges_in.e_features, k + 1)
               /\ edges_out.edge_attr[2 * k + 2] =
                    BondFeatureVector(mol, edges_in.e_features, k + 1)

FeaturesCalled == pc \in {"features_done", "features_raised"}

\* the position of the first occurrence of name x in list l
FirstAt(l, x) == CHOOSE i \in 1..Len(l) : l[i] = x /\ \A j \in 1..(i - 1) : l[j] # x

C24_ModelLoadedFromPath ==
    pc = "model_set" => query_model.model = PickleLoad(query_model.path)

Scored == pc \in {"acid_scored", "base_scored"}

\* the pairs of list l built at site
PairsAt(l, site) == { j \in 1..Len(l) : l[j].idx = site }

\* molecule m2 is m1 with the formal charge of atom idx changed by d and
\* nothing else about the charges and the elements changed
ChargeShifted(m1, m2, idx, d) ==
    /\ Len(m1) = Len(m2)
    /\ \A i \in 0..(Len(m1) - 1) :
         /\ GetAtomWithIdx(m2, i).el = GetAtomWithIdx(m1, i).el
         /\ GetAtomWithIdx(m2, i).bonds = GetAtomWithIdx(m1, i).bonds
         /\ GetAtomWithIdx(m2, i).charge =
              GetAtomWithIdx(m1, i).charge + (IF i = idx THEN d ELSE 0)

\* C25: a site is in the acid-pair list of get_possible_reactions exactly
\* when it is a nitrogen with formal charge <= 0 or has formal charge < 0,
\* and building the conjugate did not fail; its pair is (conjugate with
\* charge + 1 at the site, input molecule, site)
C25_AcidPairsOfValidSites ==
    Scored =>
      /\ \A k \in 1..Len(matches) :
           LET atom == GetAtomWithIdx(CurrentMol, matches[k])
           IN  Cardinality(PairsAt(acid_pairs, matches[k])) =
                 IF /\ (atom.el = NITROGEN /\ atom.charge <= 0) \/ atom.charge < 0
                    /\ k \notin AcidFailures
                 THEN 1 ELSE 0
      /\ \A j \in 1..Len(acid_pairs) :
           /\ \E k \in 1..Len(matches) : acid_pairs[j].idx = matches[k]
           /\ acid_pairs[j].deprot = CurrentMol
           /\ ChargeShifted(CurrentMol, acid_pairs[j].prot, acid_pairs[j].idx, 1)

\* of two sites one, a negatively charged oxygen, gave the only acid pair
C25_Witness ==
    /\ Scored
    /\ Len(matches) = 2
    /\ Len(acid_pairs) = 1
    /\ GetAtomWithIdx(CurrentMol, acid_pairs[1].idx).el = 8
    /\ GetAtomWithIdx(CurrentMol, acid_pairs[1].idx).charge = 0 - 1

\* C26: a site is in the base-pair list of get_possible_reactions exactly
\* when it has at least one hydrogen in total, formal charge >= 0, and is
\* not a nitrogen with formal charge 0 and exactly one hydrogen; its pair is
\* (input molecule, conjugate with charge - 1 at the site, site)
C26_BasePairsOfValidSites ==
    Scored =>
      /\ \A k \in 1..Len(matches) :
           LET atom == GetAtomWithIdx(CurrentMol, matches[k])
           IN  Cardinality(PairsAt(base_pairs, matches[k])) =
                 IF /\ atom.ExHs + atom.ImHs >= 1
                    /\ atom.charge >= 0
                    /\ ~(atom.el = NITROGEN /\ atom.charge = 0
                           /\ atom.ExHs + atom.ImHs = 1)
                 THEN 1 ELSE 0
      /\ \A j \in 1..Len(base_pairs) :
           /\ \E k \in 1..Len(matches) : base_pairs[j].idx = matches[k]
           /\ base_pairs[j].prot = CurrentMol
           /\ ChargeShifted(CurrentMol, base_pairs[j].deprot, base_pairs[j].idx, 0 - 1)

\* a nitrogen site is in the acid list and in the base list of the same
\* call, the other site of the molecule in neither
C26_Witness ==
    /\ Scored
    /\ Len(matches) = 2
    /\ Len(acid_pairs) = 1
    /\ Len(base_pairs) = 1
    /\ acid_pairs[1].idx = base_pairs[1].idx
    /\ GetAtomWithIdx(CurrentMol, base_pairs[1].idx).el = NITROGEN

\* C27: throughout the search len(pkas) = len(atoms) = len(mols) - 1 and
\* neighbours in mols are one step apart at the atom of the same position;
\* in the result the after-molecule of pair i is the before-molecule of pair
\* i+1, and before and after of pair i differ in formal charge only at atom
\* result["atom"][i], where before is higher by exactly 1
C27_ParallelLists ==
    /\ InQuery =>
         /\ Len(pkas) = Len(atoms)
         /\ Len(atoms) = Len(mols) - 1
         /\ \A i \in 1..Len(atoms) :
              ChargeShifted(mols[i + 1], mols[i], atoms[i], 1)
    /\ pc = "done" =>
         /\ Len(result.mol) = Len(result.pka)
         /\ Len(result.atom) = Len(result.pka)
         /\ result.pka = pkas
         /\ result.atom = atoms
         /\ \A i \in 1..(Len(result.mol) - 1) :
              result.mol[i][2] = result.mol[i + 1][1]
         /\ \A i \in 1..Len(result.mol) :
              ChargeShifted(result.mol[i][2], result.mol[i][1], result.atom[i], 1)

\* a result of an acid step and two base steps at two different atoms
C27_Witness ==
    /\ pc = "done"
    /\ Len(result.pka) = 3
    /\ result.mol[1][2] = start_mol
    /\ result.atom[2] # result.atom[3]

\* the sum of the formal charges of the candidate sites of a molecule
RECURSIVE SiteCharge(_, _)
SiteCharge(mol, k) ==
    IF k = 0 THEN 0
    ELSE GetAtomWithIdx(mol, matches[k]).charge + SiteCharge(mol, k - 1)

\* C28: mol_query terminates for every molecule and every regressor, without
\* an iteration cap: an accepted acid step raises the formal charge of one
\* candidate site by 1 (no site gets above +1), an accepted base step lowers
\* it by 1 (no site gets below -1), and the search comes to its end
C28_SearchTerminates ==
    /\ [][ /\ (pc = "acid_scored" /\ Len(pkas') > Len(pkas)) =>
                /\ SiteCharge(mols'[1], Len(matches)) =
                     SiteCharge(mols[1], Len(matches)) + 1
                /\ SiteCharge(mols'[1], Len(matches)) <= Len(matches)
           /\ (pc = "base_scored" /\ Len(pkas') > Len(pkas)) =>
                /\ SiteCharge(mols'[Len(mols')], Len(matches)) =
                     SiteCharge(mols[Len(mols)], Len(matches)) - 1
                /\ SiteCharge(mols'[Len(mols')], Len(matches)) >= 0 - Len(matches)
        ]_vars
    /\ <>(pc \in {"done", "aborted"})

\* the regressor accepted every step it was asked about: two acid steps and
\* two base steps at each of two sites were taken and the search returned
C28_Witness ==
    /\ pc = "done"
    /\ Len(matches) = 2
    /\ Len(result.pka) = 2 * Len(matches)
    /\ \A i \in 1..Len(result.pka) :
         result.pka[i] >= ACID_MIN_PKA /\ result.pka[i] <= BASE_MAX_PKA

\* list s is the beginning of list t
IsPrefix(s, t) == Len(s) <= Len(t) /\ \A i \in 1..Len(s) : t[i] = s[i]

\* list s is the end of list t
IsSuffix(s, t) ==
    Len(s) <= Len(t) /\ \A i \in 1..Len(s) : t[Len(t) - Len(s) + i] = s[i]

InBasePhase == pc \in {"base", "base_scored", "done"}

\* C29: the acid phase runs to its end before the base phase starts and the
\* search never returns to it: from the first base iteration on nothing is
\* put in front of the three lists, their entries are neither removed nor
\* changed nor reordered (in the acid phase the lists only grow at the
\* front), and the molecule the query started from stays in the molecule
\* list right after the molecules of the acid steps
C29_AcidPhaseThenBasePhase ==
    /\ [](InQuery =>
            \E k \in 1..Len(mols) :
               /\ mols[k] = start_mol
               /\ \A i \in 1..(k - 1) : NetCharge(mols[i]) > NetCharge(start_mol)
               /\ \A i \in (k + 1)..Len(mols) :
                    NetCharge(mols[i]) < NetCharge(start_mol)
               /\ ~InBasePhase => k = Len(mols))
    /\ [][ /\ InBasePhase =>
                /\ InBasePhase'
                /\ IsPrefix(mols, mols')
                /\ IsPrefix(pkas, pkas')
                /\ IsPrefix(atoms, atoms')
           /\ (InQuery /\ ~InBasePhase) =>
                /\ IsSuffix(mols, mols')
                /\ IsSuffix(pkas, pkas')
                /\ IsSuffix(atoms, atoms')
        ]_vars

\* the base phase of a search with an acid step has appended two steps
C29_Witness ==
    /\ pc = "base"
    /\ Len(pkas) = 3
    /\ mols[2] = start_mol
    /\ iters >= 4

\* the elements of list s
Range(s) == { s[i] : i \in 1..Len(s) }

\* C30: the list of candidate sites is fixed before the loops (an ascending
\* list of atom indices of the starting molecule), no search step changes
\* it, and every atom index recorded by a step and returned in the result is
\* an element of it
C30_SitesFixedAndResultWithin ==
    /\ [](InQuery =>
            /\ \A i \in 1..Len(matches) : matches[i] \in 0..(Len(start_mol) - 1)
            /\ \A i \in 1..(Len(matches) - 1) : matches[i] < matches[i + 1]
            /\ Range(atoms) \subseteq Range(matches)
            /\ pc = "done" => Range(result.atom) \subseteq Range(matches))
    /\ [][InQuery => matches' = matches]_vars

\* the second atom is the only site and the result has steps, all at it
C30_Witness ==
    /\ pc = "done"
    /\ matches = <<1>>
    /\ Len(result.atom) >= 2
    /\ Range(result.atom) = {1}

====
